---------------------------- MODULE Spec2Model ----------------------------
(***************************************************************************)
(* Booking engine of the flight booking system (src/main.py): the flight   *)
(* inventory FLIGHTS_DB, the ledger BOOKINGS, the id counter               *)
(* BOOKING_COUNTER and the five tool functions that read and change them.  *)
(*                                                                         *)
(* Spec      : the tools called one after another (the reference           *)
(*             behaviour: one thread, one call at a time).                 *)
(* SpecConc  : book_flight calls of several threads interleaved at the     *)
(*             level of the reads and writes of the shared state (the code *)
(*             takes no lock).                                             *)
(* SpecWrites: book_flight and cancel_booking only, one after another.     *)
(* SpecCheck : check_flight_availability between book_flight calls.        *)
(* SpecRefund: the first booking, over every seeded flight, passenger      *)
(*             count 1..9 and cabin class, and its cancellation.           *)
(* SpecFare  : book, cancel and view while the base price of a flight is   *)
(*             changed from outside the tools.                             *)
(* SpecSearch: search_flights between book_flight calls.                   *)
(* SpecView  : view_booking between book_flight and cancel_booking calls.  *)
(* SpecMock  : the tools of src/flight_booking_system_mock.py called in    *)
(*             step with the real ones, on the same arguments.             *)
(* SpecAssistant: run_booking_assistant, the loop that invokes the         *)
(*             external model and executes the tool calls it asks for.     *)
(* SpecCancelConc: cancel_booking calls of several threads interleaved at  *)
(*             the level of the reads and writes of the shared state.      *)
(*                                                                         *)
(* The amounts of a booking and of a refund are kept in cents (an          *)
(* integer); a flight's price and the quote of check_flight_availability   *)
(* are whole numbers, as in the inventory.  Text that the code inspects    *)
(* character by character (the e-mail) is a sequence of characters.        *)
(***************************************************************************)
EXTENDS Integers, Sequences, FiniteSets, TLC

VARIABLES
    FLIGHTS_DB,       \* route key -> sequence of flight records
    BOOKINGS,         \* booking id -> booking record
    BOOKING_COUNTER,  \* the number the next booking id is made from
    clock,            \* what datetime.now() returns next
    result,           \* the payload the last call returned
    issued,           \* booking ids handed out by successful book_flight calls, in call order
    pc,               \* SpecConc, SpecCancelConc: each thread's position inside its call
    loc,              \* SpecConc, SpecCancelConc: each thread's arguments and local variables
    mock,             \* SpecMock: the module state of flight_booking_system_mock.py
    assistant         \* SpecAssistant: the locals of run_booking_assistant

vars == <<FLIGHTS_DB, BOOKINGS, BOOKING_COUNTER, clock, result, issued, pc, loc, mock, assistant>>

-----------------------------------------------------------------------------
(* Bounds of the model *)

\* book_flight is not called once this many ids have been handed out
MaxBookings == 2
\* SpecConc: the number of threads, each running one book_flight call
NumThreads == 2

-----------------------------------------------------------------------------
(* Program constants *)

InitialCounter == 1000
MinPassengers == 1
MaxPassengers == 9

\* The dict literal, in insertion order (the order .items() scans it in)
ScanOrder == <<"NYC-LON", "NYC-TYO", "LAX-TYO", "LON-PAR">>

SeedFlights ==
    [r \in {ScanOrder[k] : k \in 1..Len(ScanOrder)} |->
        CASE r = "NYC-LON" ->
               << [id |-> "BA001", price |-> 850, departure |-> "08:00", arrival |-> "20:00", seats |-> 45],
                  [id |-> "AA102", price |-> 920, departure |-> "14:30", arrival |-> "02:30", seats |-> 12] >>
          [] r = "NYC-TYO" ->
               << [id |-> "JL005", price |-> 1200, departure |-> "13:00", arrival |-> "16:00+1", seats |-> 23],
                  [id |-> "AA150", price |-> 1150, departure |-> "18:45", arrival |-> "22:15+1", seats |-> 8] >>
          [] r = "LAX-TYO" ->
               << [id |-> "JL062", price |-> 980, departure |-> "11:00", arrival |-> "15:30+1", seats |-> 56],
                  [id |-> "NH175", price |-> 1050, departure |-> "17:00", arrival |-> "21:00+1", seats |-> 34] >>
          [] r = "LON-PAR" ->
               << [id |-> "AF318", price |-> 180, departure |-> "09:15", arrival |-> "11:45", seats |-> 89],
                  [id |-> "BA304", price |-> 195, departure |-> "16:00", arrival |-> "18:30", seats |-> 67] >> ]

-----------------------------------------------------------------------------
(* Inputs the calls are drawn from *)

CityCodes == {"NYC", "TYO"}
Dates == {"2025-02-15"}
\* two seeded flights and an id no flight has
FlightIdArgs == {"JL005", "AA150", "ZZ999"}
\* book_flight takes any int: a count that fits both flights, one that fits AA150 only
\* once a seat was added to it (and then takes its last seat), a negative one and one
\* that never fits; every cabin class of the table, and one that is not in it
BookPartyArgs ==
    { <<2, "business">>, <<9, "economy">>, <<-1, "first">>,
      <<50, "economy">>, <<2, "premium">> }
CheckPassengerArgs == {0, 2, 10}
NameArgs == {"John Smith"}
\* j@e.c ; J@e.c (differs in letter case only) ; je.c (no "@") ; j@ec (no ".")
EmailLower == <<"j", "@", "e", ".", "c">>
EmailUpper == <<"J", "@", "e", ".", "c">>
EmailNoAt == <<"j", "e", ".", "c">>
EmailNoDot == <<"j", "@", "e", "c">>
BadEmailArgs == {EmailNoAt, EmailNoDot}
\* the calls of book_flight: every flight id with every party under a well-formed
\* e-mail, and every flight id under each malformed one
BookCalls ==
    { <<f, party[1], party[2], n, EmailLower>> :
          f \in FlightIdArgs, party \in BookPartyArgs, n \in NameArgs }
    \cup { <<f, 2, "business", n, e>> :
              f \in FlightIdArgs, n \in NameArgs, e \in BadEmailArgs }
CancelEmailArgs == {EmailLower, EmailUpper}

-----------------------------------------------------------------------------
(* Helpers of the tool functions *)

\* f"BK{BOOKING_COUNTER}"
FormatId(n) == "BK" \o ToString(n)

\* ids a caller may name: those the bound lets book_flight hand out, and one beyond
BookingIdArgs == {FormatId(n) : n \in InitialCounter..(InitialCounter + MaxBookings)}

\* the number a booking id was made from
NumericPart(id) ==
    CHOOSE n \in InitialCounter..(InitialCounter + MaxBookings + NumThreads) : FormatId(n) = id

\* the key is put together the wrong way round
RouteKey_Reversed(origin, destination) == destination \o "-" \o origin

\* f"{origin}-{destination}"
RouteKey(origin, destination) == origin \o "-" \o destination

\* FLIGHTS_DB.get(route, [])
RouteFlights(db, route) == IF route \in DOMAIN db THEN db[route] ELSE << >>

\* ch in text
Contains(text, ch) == \E i \in 1..Len(text) : text[i] = ch

\* only the "@" is looked for
ValidEmail_AtOnly(email) == Contains(email, "@")

\* the e-mail check of book_flight: the call is rejected when this is false
ValidEmail(email) == Contains(email, "@") /\ Contains(email, ".")

\* the places of the nested loop "for route, flights in FLIGHTS_DB.items(): for flight in flights"
Slots(db) ==
    UNION { { <<k, i>> : i \in 1..Len(db[ScanOrder[k]]) } : k \in 1..Len(ScanOrder) }

Before(a, b) == a[1] < b[1] \/ (a[1] = b[1] /\ a[2] < b[2])

FlightAt(db, s) == db[ScanOrder[s[1]]][s[2]]

MatchingSlots(db, flight_id) == { s \in Slots(db) : FlightAt(db, s).id = flight_id }

\* the first flight the loop meets with this id (the loops of book_flight and
\* check_flight_availability return at the first match)
FirstMatch(db, flight_id) ==
    LET found == MatchingSlots(db, flight_id)
    IN  CHOOSE s \in found : \A o \in found : o = s \/ Before(s, o)

\* the check asks only whether any seat is left, not whether the party fits
InsufficientSeats_SoldOutOnly(seats, passengers) == seats <= 0

\* if flight["seats"] < passengers: return the error
InsufficientSeats(seats, passengers) == seats < passengers

\* the cabin class is not priced in: every class sells at the economy rate
MultiplierTable_Flat == [economy |-> 10, business |-> 10, first |-> 10]

\* {"economy": 1.0, "business": 2.5, "first": 4.0}, in tenths
MultiplierTable == [economy |-> 10, business |-> 25, first |-> 40]

\* round(x, 2) of an amount given in thousandths: the nearest cent, ties to the even cent
Round2(thousandths) ==
    LET q == thousandths \div 10
        r == thousandths % 10
    IN  IF r < 5 THEN q
        ELSE IF r > 5 THEN q + 1
        ELSE IF q % 2 = 0 THEN q ELSE q + 1

\* round(base_price * passengers * multiplier, 2), in cents
TotalPrice(base_price, passengers, cabin_class) ==
    Round2(base_price * passengers * MultiplierTable[cabin_class] * 100)

\* the counter moves by two: every other number is never made into an id
NextCounter_SkipsOne(counter) == counter + 2

\* the increment is lost: the next call formats the same id again
NextCounter_Stuck(counter) == counter

\* BOOKING_COUNTER += 1
NextCounter(counter) == counter + 1

\* one seat is taken whatever the size of the party
SeatsAfterBooking_OneSeat(seats, passengers) == seats - 1

\* flight["seats"] -= passengers
SeatsAfterBooking(seats, passengers) == seats - passengers

\* the cancellation forgets to give the seats back
SeatsAfterCancel_Forgotten(seats, passengers) == seats

\* flight["seats"] += booking["passengers"]
SeatsAfterCancel(seats, passengers) == seats + passengers

\* the new seat count is written to every flight of the route
WithSeats_WholeRoute(db, s, n) ==
    [db EXCEPT ![ScanOrder[s[1]]] = [i \in 1..Len(@) |-> [@[i] EXCEPT !.seats = n]]]

\* the database with the seats of the flight at slot s replaced
WithSeats(db, s, n) ==
    [db EXCEPT ![ScanOrder[s[1]]][s[2]].seats = n]

\* BOOKINGS = {booking_id: booking}: the ledger is rebuilt around the new booking
Store_Replace(ledger, booking_id, booking) ==
    [id \in {booking_id} |-> booking]

\* BOOKINGS[booking_id] = booking (a dict assignment: it replaces an entry with that key)
Store(ledger, booking_id, booking) ==
    [id \in DOMAIN ledger \cup {booking_id} |->
        IF id = booking_id THEN booking ELSE ledger[id]]

\* the booking dict book_flight builds
NewBooking(booking_id, flight_id, route, flight, passengers, cabin_class, name, email, now) ==
    [booking_id |-> booking_id,
     flight_id |-> flight_id,
     route |-> route,
     passengers |-> passengers,
     cabin_class |-> cabin_class,
     passenger_name |-> name,
     passenger_email |-> email,
     total_price |-> TotalPrice(flight.price, passengers, cabin_class),
     departure |-> flight.departure,
     arrival |-> flight.arrival,
     status |-> "CONFIRMED",
     booking_date |-> now]

\* the cancellation writes the refund over the price the booking was sold at
CancelledBooking_Repriced(booking, now) ==
    ("cancellation_date" :> now) @@
        [booking EXCEPT !.status = "CANCELLED", !.total_price = (@ * 9) \div 10]

\* booking["status"] = "CANCELLED"; booking["cancellation_date"] = now
CancelledBooking(booking, now) ==
    ("cancellation_date" :> now) @@ [booking EXCEPT !.status = "CANCELLED"]

\* the id is tested once per route: every flight of the route of the booked flight
\* gets the passengers back
RestoreSeats_WholeRoute(db, flight_id, passengers) ==
    [r \in DOMAIN db |->
        [i \in 1..Len(db[r]) |->
            IF \E j \in 1..Len(db[r]) : db[r][j].id = flight_id
            THEN [db[r][i] EXCEPT !.seats = SeatsAfterCancel(db[r][i].seats, passengers)]
            ELSE db[r][i]]]

\* the loop of cancel_booking: every flight with the booking's flight id gets the
\* passengers back (the loop has no break)
RestoreSeats(db, flight_id, passengers) ==
    [r \in DOMAIN db |->
        [i \in 1..Len(db[r]) |->
            IF db[r][i].id = flight_id
            THEN [db[r][i] EXCEPT !.seats = SeatsAfterCancel(db[r][i].seats, passengers)]
            ELSE db[r][i]]]

\* the fee is reported but not taken off: the whole price is refunded
RefundAmount_Full(total_price) == Round2(total_price * 10)

\* round(total_price * 0.9, 2) and round(total_price * 0.1, 2), in cents
RefundAmount(total_price) == Round2(total_price * 9)
CancellationFee(total_price) == Round2(total_price * 1)

ErrorKinds ==
    {"InvalidRoute", "RouteNotFound", "FlightNotFound", "InvalidPassengerCount",
     "InsufficientSeats", "InvalidEmail", "BookingNotFound", "EmailMismatch",
     "AlreadyCancelled"}

Error(kind) == [kind |-> kind]

\* the letters of the e-mails in use, folded to lower case
FoldCase(text) ==
    [i \in 1..Len(text) |->
        CASE text[i] = "J" -> "j"
          [] text[i] = "E" -> "e"
          [] text[i] = "C" -> "c"
          [] OTHER -> text[i]]

\* the two addresses are compared without regard to letter case
EmailMismatch_IgnoreCase(stored, supplied) == FoldCase(stored) # FoldCase(supplied)

\* if booking["passenger_email"] != passenger_email: return the error
EmailMismatch(stored, supplied) == stored # supplied

\* the status is compared with a word the code never writes: the check never fires
AlreadyCancelled_WrongWord(booking) == booking.status = "CANCELED"

\* the status check is missing: a cancelled booking is cancelled again
AlreadyCancelled_Unchecked(booking) == FALSE

\* if booking["status"] == "CANCELLED": return the error
AlreadyCancelled(booking) == booking.status = "CANCELLED"

-----------------------------------------------------------------------------
(* The state after the module is loaded *)

NoThreads == [t \in 1..NumThreads |-> "idle"]
NoLocals == [t \in 1..NumThreads |-> [op |-> "none"]]

\* the mock module after it is loaded: its own FLIGHTS_DB, BOOKINGS and BOOKING_COUNTER
MockScanOrder == <<"NYC-LON", "NYC-TYO", "LAX-TYO">>

MockSeedFlights ==
    [r \in {MockScanOrder[k] : k \in 1..Len(MockScanOrder)} |->
        CASE r = "NYC-LON" ->
               << [id |-> "BA001", price |-> 850, departure |-> "08:00", arrival |-> "20:00", seats |-> 45],
                  [id |-> "AA102", price |-> 920, departure |-> "14:30", arrival |-> "02:30", seats |-> 12] >>
          [] r = "NYC-TYO" ->
               << [id |-> "JL005", price |-> 1200, departure |-> "13:00", arrival |-> "16:00+1", seats |-> 23],
                  [id |-> "AA150", price |-> 1150, departure |-> "18:45", arrival |-> "22:15+1", seats |-> 8] >>
          [] r = "LAX-TYO" ->
               << [id |-> "JL062", price |-> 980, departure |-> "11:00", arrival |-> "15:30+1", seats |-> 56],
                  [id |-> "NH175", price |-> 1050, departure |-> "17:00", arrival |-> "21:00+1", seats |-> 34] >> ]

MockInitialCounter == 1000

MockLoaded ==
    [FLIGHTS_DB |-> MockSeedFlights, BOOKINGS |-> << >>,
     BOOKING_COUNTER |-> MockInitialCounter, result |-> [kind |-> "None"]]

\* run_booking_assistant before it is called
NotRunning ==
    [at |-> "idle", iteration |-> 0, invocations |-> 0, tool_turns |-> 0,
     pending |-> << >>, reply |-> "none"]

\* neither the mock module nor the assistant loop takes part in the step
EngineOnly == UNCHANGED <<mock, assistant>>

Init ==
    /\ FLIGHTS_DB = SeedFlights
    /\ BOOKINGS = << >>
    /\ BOOKING_COUNTER = InitialCounter
    /\ clock = 0
    /\ result = [kind |-> "None"]
    /\ issued = << >>
    /\ pc = NoThreads
    /\ loc = NoLocals
    /\ mock = MockLoaded
    /\ assistant = NotRunning

-----------------------------------------------------------------------------
(* The tool functions, each call one step *)

\* an error path with the id already taken: BOOKING_COUNTER += 1 moved above the checks
Reject_AfterAllocation(payload) ==
    /\ result' = payload
    /\ BOOKING_COUNTER' = BOOKING_COUNTER + 1
    /\ UNCHANGED <<FLIGHTS_DB, BOOKINGS, clock, issued, pc, loc>>

\* return json.dumps({"error": ...}): the payload goes back, nothing was written before it
Reject(payload) ==
    /\ result' = payload
    /\ UNCHANGED <<FLIGHTS_DB, BOOKINGS, BOOKING_COUNTER, clock, issued, pc, loc>>

search_flights(origin, destination, departure_date) ==
    /\ result' =
         IF origin = destination THEN Error("InvalidRoute")
         ELSE LET flights == RouteFlights(FLIGHTS_DB, RouteKey(origin, destination))
              IN  IF flights = << >> THEN Error("RouteNotFound")
                  ELSE [kind |-> "Flights",
                        origin |-> origin,
                        destination |-> destination,
                        date |-> departure_date,
                        flights |-> flights,
                        count |-> Len(flights)]
    /\ UNCHANGED <<FLIGHTS_DB, BOOKINGS, BOOKING_COUNTER, clock, issued, pc, loc>>

\* the flight is looked up first, the passenger count is validated after it
check_flight_availability_LookupFirst(flight_id, passengers) ==
    /\ result' =
         IF MatchingSlots(FLIGHTS_DB, flight_id) = {} THEN Error("FlightNotFound")
         ELSE IF passengers < MinPassengers \/ passengers > MaxPassengers
         THEN Error("InvalidPassengerCount")
         ELSE LET s == FirstMatch(FLIGHTS_DB, flight_id)
                  flight == FlightAt(FLIGHTS_DB, s)
                  available == flight.seats
                  is_available == available >= passengers
              IN  [kind |-> "Availability",
                   flight_id |-> flight_id,
                   route |-> ScanOrder[s[1]],
                   passengers_requested |-> passengers,
                   seats_available |-> available,
                   can_book |-> is_available,
                   price_per_person |-> flight.price,
                   total_price |-> IF is_available THEN <<flight.price * passengers>> ELSE << >>,
                   departure |-> flight.departure,
                   arrival |-> flight.arrival]
    /\ UNCHANGED <<FLIGHTS_DB, BOOKINGS, BOOKING_COUNTER, clock, issued, pc, loc>>

check_flight_availability(flight_id, passengers) ==
    /\ result' =
         IF passengers < MinPassengers \/ passengers > MaxPassengers
         THEN Error("InvalidPassengerCount")
         ELSE IF MatchingSlots(FLIGHTS_DB, flight_id) = {} THEN Error("FlightNotFound")
         ELSE LET s == FirstMatch(FLIGHTS_DB, flight_id)
                  flight == FlightAt(FLIGHTS_DB, s)
                  available == flight.seats
                  is_available == available >= passengers
              IN  [kind |-> "Availability",
                   flight_id |-> flight_id,
                   route |-> ScanOrder[s[1]],
                   passengers_requested |-> passengers,
                   seats_available |-> available,
                   can_book |-> is_available,
                   price_per_person |-> flight.price,
                   total_price |-> IF is_available THEN <<flight.price * passengers>> ELSE << >>,
                   departure |-> flight.departure,
                   arrival |-> flight.arrival]
    /\ UNCHANGED <<FLIGHTS_DB, BOOKINGS, BOOKING_COUNTER, clock, issued, pc, loc>>

book_flight(flight_id, passengers, cabin_class, passenger_name, passenger_email) ==
    IF ~ValidEmail(passenger_email)
    THEN Reject(Error("InvalidEmail"))
    ELSE IF MatchingSlots(FLIGHTS_DB, flight_id) = {}
    THEN Reject(Error("FlightNotFound"))
    ELSE LET s == FirstMatch(FLIGHTS_DB, flight_id)
             flight == FlightAt(FLIGHTS_DB, s)
         IN  IF InsufficientSeats(flight.seats, passengers)
             THEN Reject([kind |-> "InsufficientSeats",
                          requested |-> passengers,
                          available |-> flight.seats])
             ELSE IF cabin_class \notin DOMAIN MultiplierTable
             THEN \* the table lookup raises KeyError: the call ends without a payload
                  /\ result' = [kind |-> "KeyError"]
                  /\ UNCHANGED <<FLIGHTS_DB, BOOKINGS, BOOKING_COUNTER, clock, issued, pc, loc>>
             ELSE LET booking_id == FormatId(BOOKING_COUNTER)
                      booking == NewBooking(booking_id, flight_id, ScanOrder[s[1]], flight,
                                            passengers, cabin_class, passenger_name,
                                            passenger_email, clock)
                  IN  /\ BOOKING_COUNTER' = NextCounter(BOOKING_COUNTER)
                      /\ BOOKINGS' = Store(BOOKINGS, booking_id, booking)
                      /\ FLIGHTS_DB' = WithSeats(FLIGHTS_DB, s,
                                                 SeatsAfterBooking(flight.seats, passengers))
                      /\ clock' = clock + 1
                      /\ result' = [kind |-> "Booked", booking |-> booking]
                      /\ issued' = Append(issued, booking_id)
                      /\ UNCHANGED <<pc, loc>>

\* the status is tested before the e-mail: a cancelled booking answers AlreadyCancelled
\* to any caller
cancel_booking_StatusFirst(booking_id, passenger_email) ==
    IF booking_id \notin DOMAIN BOOKINGS
    THEN Reject(Error("BookingNotFound"))
    ELSE LET booking == BOOKINGS[booking_id]
         IN  IF AlreadyCancelled(booking)
             THEN Reject(Error("AlreadyCancelled"))
             ELSE IF EmailMismatch(booking.passenger_email, passenger_email)
             THEN Reject(Error("EmailMismatch"))
             ELSE /\ FLIGHTS_DB' = RestoreSeats(FLIGHTS_DB, booking.flight_id, booking.passengers)
                  /\ BOOKINGS' = [BOOKINGS EXCEPT ![booking_id] = CancelledBooking(booking, clock)]
                  /\ clock' = clock + 1
                  /\ result' = [kind |-> "Cancelled",
                                booking_id |-> booking_id,
                                refund_amount |-> RefundAmount(booking.total_price),
                                original_amount |-> booking.total_price,
                                cancellation_fee |-> CancellationFee(booking.total_price)]
                  /\ UNCHANGED <<BOOKING_COUNTER, issued, pc, loc>>

cancel_booking(booking_id, passenger_email) ==
    IF booking_id \notin DOMAIN BOOKINGS
    THEN Reject(Error("BookingNotFound"))
    ELSE LET booking == BOOKINGS[booking_id]
         IN  IF EmailMismatch(booking.passenger_email, passenger_email)
             THEN Reject(Error("EmailMismatch"))
             ELSE IF AlreadyCancelled(booking)
             THEN Reject(Error("AlreadyCancelled"))
             ELSE /\ FLIGHTS_DB' = RestoreSeats(FLIGHTS_DB, booking.flight_id, booking.passengers)
                  /\ BOOKINGS' = [BOOKINGS EXCEPT ![booking_id] = CancelledBooking(booking, clock)]
                  /\ clock' = clock + 1
                  /\ result' = [kind |-> "Cancelled",
                                booking_id |-> booking_id,
                                refund_amount |-> RefundAmount(booking.total_price),
                                original_amount |-> booking.total_price,
                                cancellation_fee |-> CancellationFee(booking.total_price)]
                  /\ UNCHANGED <<BOOKING_COUNTER, issued, pc, loc>>

\* the record is shown as it was booked: the status written by a cancellation is lost
view_booking_AsBooked(booking_id) ==
    /\ result' =
         IF booking_id \notin DOMAIN BOOKINGS THEN Error("BookingNotFound")
         ELSE [kind |-> "Booking", booking |-> [BOOKINGS[booking_id] EXCEPT !.status = "CONFIRMED"]]
    /\ UNCHANGED <<FLIGHTS_DB, BOOKINGS, BOOKING_COUNTER, clock, issued, pc, loc>>

view_booking(booking_id) ==
    /\ result' =
         IF booking_id \notin DOMAIN BOOKINGS THEN Error("BookingNotFound")
         ELSE [kind |-> "Booking", booking |-> BOOKINGS[booking_id]]
    /\ UNCHANGED <<FLIGHTS_DB, BOOKINGS, BOOKING_COUNTER, clock, issued, pc, loc>>

-----------------------------------------------------------------------------
(* The tools called one after another *)

Search ==
    /\ \E o \in CityCodes, d \in CityCodes, date \in Dates : search_flights(o, d, date)
    /\ EngineOnly

Check ==
    /\ \E f \in FlightIdArgs, p \in CheckPassengerArgs : check_flight_availability(f, p)
    /\ EngineOnly

\* a call that would hand out more than MaxBookings ids is not made
Book ==
    /\ \E call \in BookCalls :
          /\ book_flight(call[1], call[2], call[3], call[4], call[5])
          /\ BOOKING_COUNTER' <= InitialCounter + MaxBookings
    /\ EngineOnly

Cancel ==
    /\ \E b \in BookingIdArgs, e \in CancelEmailArgs : cancel_booking(b, e)
    /\ EngineOnly

View ==
    /\ \E b \in BookingIdArgs : view_booking(b)
    /\ EngineOnly

Next == Search \/ Check \/ Book \/ Cancel \/ View

Spec == Init /\ [][Next]_vars

-----------------------------------------------------------------------------
(* The two tools that write, called one after another: the behaviours of Spec with
   the calls of the three read-only tools left out. *)

NextWrites == Book \/ Cancel

SpecWrites == Init /\ [][NextWrites]_vars

-----------------------------------------------------------------------------
(* Availability asked for between bookings: check_flight_availability against every
   inventory that book_flight calls leave behind. *)

NextCheck == Check \/ Book

SpecCheck == Init /\ [][NextCheck]_vars

-----------------------------------------------------------------------------
(* Flights searched for between bookings: search_flights against every inventory
   that book_flight calls leave behind. *)

NextSearch == Search \/ Book

SpecSearch == Init /\ [][NextSearch]_vars

-----------------------------------------------------------------------------
(* Bookings looked at between the calls that write them: view_booking after every
   sequence of book_flight and cancel_booking calls. *)

NextView == View \/ Book \/ Cancel

SpecView == Init /\ [][NextView]_vars

-----------------------------------------------------------------------------
(* The tools called one after another while the fares move.  No tool function writes
   a price; FLIGHTS_DB is a module-level dict, and a fare change is an assignment to
   flight["price"] made from outside the five tools. *)

\* the flight whose fare moves, and the fares it moves to (a cut and a rise)
FareFlightArgs == {"JL005"}
FareArgs == {1000, 1500}
FareBookCalls ==
    { <<f, party[1], party[2], n, EmailLower>> :
          f \in FareFlightArgs, party \in {<<2, "business">>, <<9, "economy">>}, n \in NameArgs }

\* flight["price"] = price, on the first flight with that id
ChangeFare(flight_id, price) ==
    /\ MatchingSlots(FLIGHTS_DB, flight_id) # {}
    /\ LET s == FirstMatch(FLIGHTS_DB, flight_id)
       IN  FLIGHTS_DB' = [FLIGHTS_DB EXCEPT ![ScanOrder[s[1]]][s[2]].price = price]
    /\ UNCHANGED <<BOOKINGS, BOOKING_COUNTER, clock, result, issued, pc, loc>>

Fare ==
    /\ \E f \in FareFlightArgs, price \in FareArgs : ChangeFare(f, price)
    /\ EngineOnly

FareBook ==
    /\ \E call \in FareBookCalls :
          /\ book_flight(call[1], call[2], call[3], call[4], call[5])
          /\ BOOKING_COUNTER' <= InitialCounter + MaxBookings
    /\ EngineOnly

NextFare == FareBook \/ Cancel \/ View \/ Fare

SpecFare == Init /\ [][NextFare]_vars

-----------------------------------------------------------------------------
(* The first booking made on the seeded inventory and what cancel_booking answers
   about it, for every flight, every passenger count of the documented range and
   every cabin class of the table: the amounts the refund arithmetic is applied to. *)

RefundBookCalls ==
    { <<f, p, c, n, EmailLower>> :
          f \in { FlightAt(SeedFlights, s).id : s \in Slots(SeedFlights) },
          p \in MinPassengers..MaxPassengers,
          c \in DOMAIN MultiplierTable,
          n \in NameArgs }

RefundBook ==
    /\ BOOKINGS = << >>
    /\ \E call \in RefundBookCalls :
          book_flight(call[1], call[2], call[3], call[4], call[5])
    /\ EngineOnly

NextRefund == RefundBook \/ Cancel

SpecRefund == Init /\ [][NextRefund]_vars

-----------------------------------------------------------------------------
(* book_flight run by several threads at once.  The function takes no lock, so a
   thread may be preempted between any two accesses of the shared state.  Each
   step below is one such access together with the local work that follows it;
   the two augmented assignments (BOOKING_COUNTER += 1, flight["seats"] -=
   passengers) are a read followed by a write. *)

ConcPartyArgs == { <<5, "economy">>, <<9, "business">>, <<5, "premium">> }
ConcEmailArgs == {EmailLower, EmailNoAt}

Threads == 1..NumThreads

Goto(t, label, locals) ==
    /\ pc' = [pc EXCEPT ![t] = label]
    /\ loc' = [loc EXCEPT ![t] = locals]
    /\ EngineOnly

Return(t, payload) == Goto(t, "done", ("ret" :> payload) @@ loc[t])

\* the call is made: the arguments are bound
t_call(t) ==
    /\ pc[t] = "idle"
    /\ \E f \in FlightIdArgs, party \in ConcPartyArgs, n \in NameArgs, e \in ConcEmailArgs :
          Goto(t, "validate",
               [op |-> "book_flight", flight_id |-> f, passengers |-> party[1],
                cabin_class |-> party[2], passenger_name |-> n, passenger_email |-> e])
    /\ UNCHANGED <<FLIGHTS_DB, BOOKINGS, BOOKING_COUNTER, clock, result, issued>>

\* the e-mail check
t_validate(t) ==
    /\ pc[t] = "validate"
    /\ IF ~ValidEmail(loc[t].passenger_email)
       THEN Return(t, Error("InvalidEmail"))
       ELSE Goto(t, "find", loc[t])
    /\ UNCHANGED <<FLIGHTS_DB, BOOKINGS, BOOKING_COUNTER, clock, result, issued>>

\* the scan for the flight and the read of its seats for the check
t_find(t) ==
    /\ pc[t] = "find"
    /\ IF MatchingSlots(FLIGHTS_DB, loc[t].flight_id) = {}
       THEN Return(t, Error("FlightNotFound"))
       ELSE LET s == FirstMatch(FLIGHTS_DB, loc[t].flight_id)
                flight == FlightAt(FLIGHTS_DB, s)
            IN  IF InsufficientSeats(flight.seats, loc[t].passengers)
                THEN Return(t, [kind |-> "InsufficientSeats",
                                requested |-> loc[t].passengers,
                                available |-> flight.seats])
                ELSE Goto(t, "format_id", ("slot" :> s) @@ loc[t])
    /\ UNCHANGED <<FLIGHTS_DB, BOOKINGS, BOOKING_COUNTER, clock, result, issued>>

\* the price, then booking_id = f"BK{BOOKING_COUNTER}": the counter is read
t_format_id(t) ==
    /\ pc[t] = "format_id"
    /\ IF loc[t].cabin_class \notin DOMAIN MultiplierTable
       THEN Return(t, [kind |-> "KeyError"])
       ELSE Goto(t, "counter_load", ("booking_id" :> FormatId(BOOKING_COUNTER)) @@ loc[t])
    /\ UNCHANGED <<FLIGHTS_DB, BOOKINGS, BOOKING_COUNTER, clock, result, issued>>

\* BOOKING_COUNTER += 1, the read
t_counter_load(t) ==
    /\ pc[t] = "counter_load"
    /\ Goto(t, "counter_store", ("tmp" :> BOOKING_COUNTER) @@ loc[t])
    /\ UNCHANGED <<FLIGHTS_DB, BOOKINGS, BOOKING_COUNTER, clock, result, issued>>

\* BOOKING_COUNTER += 1, the write
t_counter_store(t) ==
    /\ pc[t] = "counter_store"
    /\ BOOKING_COUNTER' = NextCounter(loc[t].tmp)
    /\ Goto(t, "insert", loc[t])
    /\ UNCHANGED <<FLIGHTS_DB, BOOKINGS, clock, result, issued>>

\* the booking dict is built and BOOKINGS[booking_id] = booking
t_insert(t) ==
    /\ pc[t] = "insert"
    /\ LET s == loc[t].slot
           booking == NewBooking(loc[t].booking_id, loc[t].flight_id, ScanOrder[s[1]],
                                 FlightAt(FLIGHTS_DB, s), loc[t].passengers,
                                 loc[t].cabin_class, loc[t].passenger_name,
                                 loc[t].passenger_email, clock)
       IN  /\ BOOKINGS' = Store(BOOKINGS, loc[t].booking_id, booking)
           /\ Goto(t, "seats_load", ("booking" :> booking) @@ loc[t])
    /\ clock' = clock + 1
    /\ UNCHANGED <<FLIGHTS_DB, BOOKING_COUNTER, result, issued>>

\* flight["seats"] -= passengers, the read
t_seats_load(t) ==
    /\ pc[t] = "seats_load"
    /\ Goto(t, "seats_store", [loc[t] EXCEPT !.tmp = FlightAt(FLIGHTS_DB, loc[t].slot).seats])
    /\ UNCHANGED <<FLIGHTS_DB, BOOKINGS, BOOKING_COUNTER, clock, result, issued>>

\* flight["seats"] -= passengers, the write; then the confirmation is returned
t_seats_store(t) ==
    /\ pc[t] = "seats_store"
    /\ FLIGHTS_DB' = WithSeats(FLIGHTS_DB, loc[t].slot,
                               SeatsAfterBooking(loc[t].tmp, loc[t].passengers))
    /\ Return(t, [kind |-> "Booked", booking |-> loc[t].booking])
    /\ UNCHANGED <<BOOKINGS, BOOKING_COUNTER, clock, result, issued>>

\* a reader running beside the threads: it takes no lock either, so it may run in any state
ConcRead ==
    /\ \/ \E b \in BookingIdArgs : view_booking(b)
       \/ \E f \in FlightIdArgs : check_flight_availability(f, MinPassengers)
    /\ EngineOnly

NextConc ==
    \/ \E t \in Threads :
          \/ t_call(t)
          \/ t_validate(t)
          \/ t_find(t)
          \/ t_format_id(t)
          \/ t_counter_load(t)
          \/ t_counter_store(t)
          \/ t_insert(t)
          \/ t_seats_load(t)
          \/ t_seats_store(t)
    \/ ConcRead

SpecConc == Init /\ [][NextConc]_vars

-----------------------------------------------------------------------------
(* What the properties are written in *)

FlightIds == { FlightAt(SeedFlights, s).id : s \in Slots(SeedFlights) }

\* the seats the flight was seeded with, and the seats it has now
InitialSeats(flight_id) == FlightAt(SeedFlights, FirstMatch(SeedFlights, flight_id)).seats
SeatsNow(flight_id) == FlightAt(FLIGHTS_DB, FirstMatch(FLIGHTS_DB, flight_id)).seats

\* the seats and the price of a flight in a given inventory
SeatsIn(db, flight_id) == FlightAt(db, FirstMatch(db, flight_id)).seats
PriceIn(db, flight_id) == FlightAt(db, FirstMatch(db, flight_id)).price

BookingsOn(flight_id) == { id \in DOMAIN BOOKINGS : BOOKINGS[id].flight_id = flight_id }
WithStatus(ids, status) == { id \in ids : BOOKINGS[id].status = status }

RECURSIVE PassengerSum(_)
PassengerSum(ids) ==
    IF ids = {} THEN 0
    ELSE LET id == CHOOSE x \in ids : TRUE
         IN  BOOKINGS[id].passengers + PassengerSum(ids \ {id})

ConfirmedSum(flight_id) == PassengerSum(WithStatus(BookingsOn(flight_id), "CONFIRMED"))
CancelledSum(flight_id) == PassengerSum(WithStatus(BookingsOn(flight_id), "CANCELLED"))

\* only book_flight has written so far: a successful cancel_booking leaves a CANCELLED booking
OnlyBooked == \A id \in DOMAIN BOOKINGS : BOOKINGS[id].status = "CONFIRMED"

-----------------------------------------------------------------------------
(* C1: no overselling. After any sequence of book_flight calls (no cancellation has
   happened), the passengers of the CONFIRMED bookings of a flight add up to at most
   the seats the flight was seeded with. *)
C1_NoOverselling ==
    OnlyBooked => \A f \in FlightIds : ConfirmedSum(f) <= InitialSeats(f)

\* AA150 is sold out by bookings alone and a further booking has been turned away
C1_Witness ==
    /\ OnlyBooked
    /\ ConfirmedSum("AA150") = InitialSeats("AA150")
    /\ result.kind = "InsufficientSeats"
    /\ result.available = 0

(* C2: seat bounds. Every flight has 0 <= seats <= initial seats in every state that
   book_flight and cancel_booking calls with any integer passenger count reach. *)
C2_SeatBounds ==
    \A f \in FlightIds : 0 <= SeatsNow(f) /\ SeatsNow(f) <= InitialSeats(f)

(* C3, as the specification writes it: seats now = initial seats - the passengers of
   the CONFIRMED bookings + the passengers of the CANCELLED bookings of the flight. *)
C3_ConservationAsWritten ==
    \A f \in FlightIds :
        SeatsNow(f) = InitialSeats(f) - ConfirmedSum(f) + CancelledSum(f)

(* C3, amended: seats now = initial seats - the passengers of every booking ever made
   on the flight + the passengers of its CANCELLED bookings (a cancellation gives back
   exactly what its own booking took). *)
C3_SeatConservation ==
    \A f \in FlightIds :
        SeatsNow(f) = InitialSeats(f) - PassengerSum(BookingsOn(f)) + CancelledSum(f)

\* JL005 carries a cancelled and a confirmed booking, both of two passengers
C3_Witness ==
    /\ CancelledSum("JL005") = 2
    /\ ConfirmedSum("JL005") = 2
    /\ SeatsNow("JL005") = 21

(* C4: monotonic ids. The ids handed out by successful book_flight calls are, in call
   order, strictly increasing in their numeric part, the first is 1000, none is handed
   out twice (also not after its booking was cancelled), and a call that fails takes
   no id: the counter is always 1000 + the number of ids handed out. *)
C4_MonotonicIds ==
    /\ \A i \in 1..Len(issued), j \in 1..Len(issued) :
          i < j => NumericPart(issued[i]) < NumericPart(issued[j])
    /\ issued # << >> => NumericPart(issued[1]) = InitialCounter
    /\ BOOKING_COUNTER = InitialCounter + Len(issued)

\* the first booking was cancelled before the second was made, and a call has just failed
C4_Witness ==
    /\ Len(issued) = 2
    /\ BOOKINGS[issued[1]].status = "CANCELLED"
    /\ BOOKINGS[issued[1]].cancellation_date < BOOKINGS[issued[2]].booking_date
    /\ result.kind \in ErrorKinds

(* C5: one-way lifecycle. A booking enters the ledger CONFIRMED and without a
   cancellation date; the only change a step makes to a booking is CONFIRMED ->
   CANCELLED, by a successful cancel_booking of that booking, which writes the
   cancellation date; a CANCELLED booking is never changed again. *)
C5_OneWayLifecycle ==
    [][ /\ \A id \in DOMAIN BOOKINGS' \ DOMAIN BOOKINGS :
              /\ BOOKINGS'[id].status = "CONFIRMED"
              /\ "cancellation_date" \notin DOMAIN BOOKINGS'[id]
        /\ \A id \in DOMAIN BOOKINGS \cap DOMAIN BOOKINGS' :
              \/ BOOKINGS'[id] = BOOKINGS[id]
              \/ /\ BOOKINGS[id].status = "CONFIRMED"
                 /\ BOOKINGS'[id].status = "CANCELLED"
                 /\ "cancellation_date" \notin DOMAIN BOOKINGS[id]
                 /\ "cancellation_date" \in DOMAIN BOOKINGS'[id]
                 /\ result'.kind = "Cancelled"
                 /\ result'.booking_id = id
      ]_vars

\* a cancelled booking whose owner has tried to cancel it once more
C5_Witness ==
    /\ result.kind = "AlreadyCancelled"
    /\ \E id \in DOMAIN BOOKINGS :
          /\ BOOKINGS[id].status = "CANCELLED"
          /\ BOOKINGS[id].cancellation_date > BOOKINGS[id].booking_date

(* C6: all-or-nothing. A call of search_flights, check_flight_availability,
   book_flight, cancel_booking or view_booking that returns an error payload leaves
   the inventory, the ledger and BOOKING_COUNTER exactly as they were. *)
C6_AllOrNothing ==
    [][ result'.kind \in ErrorKinds => UNCHANGED <<FLIGHTS_DB, BOOKINGS, BOOKING_COUNTER>> ]_vars

\* a call was refused while the ledger and the inventory were no longer in their first state
C6_Witness ==
    /\ result.kind \in {"InsufficientSeats", "EmailMismatch"}
    /\ BOOKINGS # << >>
    /\ FLIGHTS_DB # SeedFlights

(* Properties of the concurrent runs are written in what the threads were told *)

BookedBy(t) == pc[t] = "done" /\ loc[t].ret.kind = "Booked"
BookedOn(flight_id) == { t \in Threads : BookedBy(t) /\ loc[t].flight_id = flight_id }

RECURSIVE ThreadPassengerSum(_)
ThreadPassengerSum(ts) ==
    IF ts = {} THEN 0
    ELSE LET t == CHOOSE x \in ts : TRUE
         IN  loc[t].passengers + ThreadPassengerSum(ts \ {t})

(* C7: book atomicity. Whatever state another operation runs in (a reader takes no
   lock, so that is every state of the concurrent runs), the ledger and the seats
   agree: no booking is in the ledger with its seats not yet taken off the flight,
   and no seats are taken off without the booking in the ledger. *)
C7_BookAtomic ==
    \A f \in FlightIds : SeatsNow(f) = InitialSeats(f) - ConfirmedSum(f)

(* C8: per-flight serializability. book_flight calls that ran side by side on one
   flight and were all confirmed ask together for no more than the seats the flight
   had before any of them started, and once every call has returned each confirmed
   call's passengers are off the flight (no seat update is lost). *)
C8_PerFlightSerializable ==
    \A f \in FlightIds :
        /\ ThreadPassengerSum(BookedOn(f)) <= InitialSeats(f)
        /\ (\A t \in Threads : pc[t] = "done") =>
              SeatsNow(f) = InitialSeats(f) - ThreadPassengerSum(BookedOn(f))

(* C9: id allocation under concurrency. Two confirmed book_flight calls never get the
   same booking id, and the entry a confirmed call stored is still in the ledger: no
   other call has written its own booking over it. *)
C9_UniqueIdsConcurrent ==
    /\ \A t \in Threads, u \in Threads :
          t # u /\ BookedBy(t) /\ BookedBy(u) =>
              loc[t].ret.booking.booking_id # loc[u].ret.booking.booking_id
    /\ \A t \in Threads :
          BookedBy(t) =>
              /\ loc[t].booking_id \in DOMAIN BOOKINGS
              /\ BOOKINGS[loc[t].booking_id] = loc[t].booking

(* C10: the ledger only grows. A key of BOOKINGS stays a key in every later state; a
   booking just made is stored under an id that was not a key before, and it leaves
   every earlier entry as it was. *)
C10_LedgerAppendOnly ==
    [][ /\ DOMAIN BOOKINGS \subseteq DOMAIN BOOKINGS'
        /\ result'.kind = "Booked" =>
              /\ result'.booking.booking_id \notin DOMAIN BOOKINGS
              /\ \A id \in DOMAIN BOOKINGS : BOOKINGS'[id] = BOOKINGS[id]
      ]_vars

\* two entries, the first of them cancelled, and the second booked after that
C10_Witness ==
    /\ Cardinality(DOMAIN BOOKINGS) = 2
    /\ \E a \in DOMAIN BOOKINGS, b \in DOMAIN BOOKINGS :
          /\ BOOKINGS[a].status = "CANCELLED"
          /\ BOOKINGS[b].status = "CONFIRMED"
          /\ BOOKINGS[b].booking_date > BOOKINGS[a].cancellation_date

(* C11: every booking stored in the ledger has a passengers value in [1, 9], in every
   reachable state and for every argument book_flight accepts. *)
C11_PassengersInRange ==
    \A id \in DOMAIN BOOKINGS :
        /\ BOOKINGS[id].passengers >= MinPassengers
        /\ BOOKINGS[id].passengers <= MaxPassengers

(* C12: a successful book_flight(flight, passengers, cabin_class, ...) stores and
   returns total_price = flight.price * passengers * m, with m = 1.0 for economy, 2.5
   for business and 4.0 for first, and the seats of the flight drop by exactly
   passengers.  On the seed, JL005 for 2 in business gives total_price 6000.00, 21
   seats and the booking id BK1000.  (Prices are in cents, m in tenths.) *)
C12_BookingEffect ==
    [][ result'.kind = "Booked" =>
          \A call \in BookCalls :
              book_flight(call[1], call[2], call[3], call[4], call[5]) =>
                  LET flight_id == call[1]
                      passengers == call[2]
                      m == CASE call[3] = "economy" -> 10
                             [] call[3] = "business" -> 25
                             [] call[3] = "first" -> 40
                      b == result'.booking
                  IN  /\ b.total_price * 10 = PriceIn(FLIGHTS_DB, flight_id) * 100 * passengers * m
                      /\ b.booking_id \in DOMAIN BOOKINGS'
                      /\ BOOKINGS'[b.booking_id].total_price = b.total_price
                      /\ SeatsIn(FLIGHTS_DB', flight_id) = SeatsIn(FLIGHTS_DB, flight_id) - passengers
                      /\ (/\ FLIGHTS_DB = SeedFlights
                          /\ BOOKING_COUNTER = InitialCounter
                          /\ flight_id = "JL005" /\ passengers = 2 /\ call[3] = "business")
                         => /\ b.total_price = 600000
                            /\ SeatsIn(FLIGHTS_DB', "JL005") = 21
                            /\ b.booking_id = "BK1000"
      ]_vars

\* the seed example has happened: JL005 booked for 2 in business as the first booking
C12_Witness ==
    /\ result.kind = "Booked"
    /\ result.booking.booking_id = "BK1000"
    /\ result.booking.flight_id = "JL005"
    /\ result.booking.passengers = 2
    /\ result.booking.cabin_class = "business"
    /\ SeatsNow("JL005") = 21
    /\ BOOKINGS["BK1000"].total_price = 600000

(* C13: price freezing. Once a booking exists, its total_price, flight_id, passengers,
   cabin_class and passenger_email are the same in every later state, whatever
   follows: further bookings, its own cancellation, or a change of the base price of
   its flight. *)
C13_PriceFrozen ==
    [][ \A id \in DOMAIN BOOKINGS :
            /\ id \in DOMAIN BOOKINGS'
            /\ BOOKINGS'[id].total_price = BOOKINGS[id].total_price
            /\ BOOKINGS'[id].flight_id = BOOKINGS[id].flight_id
            /\ BOOKINGS'[id].passengers = BOOKINGS[id].passengers
            /\ BOOKINGS'[id].cabin_class = BOOKINGS[id].cabin_class
            /\ BOOKINGS'[id].passenger_email = BOOKINGS[id].passenger_email
      ]_vars

\* BK1000 was sold at the seeded fare of JL005, the fare then rose, BK1001 was sold at
\* the new fare, and BK1000 was cancelled: it still carries the price it was sold at
C13_Witness ==
    /\ DOMAIN BOOKINGS = {"BK1000", "BK1001"}
    /\ PriceIn(FLIGHTS_DB, "JL005") = 1500
    /\ BOOKINGS["BK1000"].flight_id = "JL005"
    /\ BOOKINGS["BK1000"].total_price = 600000
    /\ BOOKINGS["BK1000"].status = "CANCELLED"
    /\ BOOKINGS["BK1001"].flight_id = "JL005"
    /\ BOOKINGS["BK1001"].total_price = 750000

(* C14: a successful cancel_booking(b, email) adds exactly b.passengers to the seats
   of exactly the one flight whose id is b.flight_id, leaves the seats of every other
   flight as they were, and sets the status of b to CANCELLED.  On the seed, after
   JL005 was booked for 2, the cancellation brings JL005 back to 23 seats. *)
C14_CancelRestoresSeats ==
    [][ result'.kind = "Cancelled" =>
          \A booking_id \in BookingIdArgs, email \in CancelEmailArgs :
              cancel_booking(booking_id, email) =>
                  LET b == BOOKINGS[booking_id]
                  IN  /\ Cardinality(MatchingSlots(FLIGHTS_DB, b.flight_id)) = 1
                      /\ Slots(FLIGHTS_DB') = Slots(FLIGHTS_DB)
                      /\ \A s \in Slots(FLIGHTS_DB) :
                            /\ FlightAt(FLIGHTS_DB', s).id = FlightAt(FLIGHTS_DB, s).id
                            /\ FlightAt(FLIGHTS_DB', s).seats =
                                  IF FlightAt(FLIGHTS_DB, s).id = b.flight_id
                                  THEN FlightAt(FLIGHTS_DB, s).seats + b.passengers
                                  ELSE FlightAt(FLIGHTS_DB, s).seats
                      /\ BOOKINGS'[booking_id].status = "CANCELLED"
                      /\ (b.flight_id = "JL005" /\ b.passengers = 2 /\ SeatsIn(FLIGHTS_DB, "JL005") = 21)
                         => SeatsIn(FLIGHTS_DB', "JL005") = 23
      ]_vars

\* JL005 was booked for 2 as the only booking and that booking has just been
\* cancelled: JL005 has its 23 seats again and the inventory is the seeded one
C14_Witness ==
    /\ result.kind = "Cancelled"
    /\ DOMAIN BOOKINGS = {"BK1000"}
    /\ BOOKINGS["BK1000"].flight_id = "JL005"
    /\ BOOKINGS["BK1000"].passengers = 2
    /\ BOOKINGS["BK1000"].status = "CANCELLED"
    /\ SeatsNow("JL005") = 23
    /\ FLIGHTS_DB = SeedFlights

(* C15: a successful cancel_booking reports refund_amount = 90% and cancellation_fee =
   10% of the total_price stored on the booking, and original_amount equal to that
   total_price, so that refund_amount + cancellation_fee = original_amount, for every
   price, passenger count and cabin class of the seed; a total of 6000.00 gives a
   refund of 5400.00 and a fee of 600.00.  (Amounts are in cents.) *)
C15_RefundSplit ==
    [][ result'.kind = "Cancelled" =>
          \A booking_id \in BookingIdArgs, email \in CancelEmailArgs :
              cancel_booking(booking_id, email) =>
                  LET total == BOOKINGS[booking_id].total_price
                  IN  /\ result'.original_amount = total
                      /\ result'.refund_amount * 10 = total * 9
                      /\ result'.cancellation_fee * 10 = total
                      /\ result'.refund_amount + result'.cancellation_fee = result'.original_amount
                      /\ total = 600000 =>
                            /\ result'.refund_amount = 540000
                            /\ result'.cancellation_fee = 60000
      ]_vars

\* a booking of 6000.00 has just been cancelled: 5400.00 go back, 600.00 are kept
C15_Witness ==
    /\ result.kind = "Cancelled"
    /\ BOOKINGS[result.booking_id].total_price = 600000
    /\ result.original_amount = 600000
    /\ result.refund_amount = 540000
    /\ result.cancellation_fee = 60000

(* C16: cancellation is guarded against repetition. Once a booking b has been
   cancelled, every later cancel_booking(b, email) with the matching e-mail returns
   AlreadyCancelled and changes nothing; a cancellation that succeeds is the
   cancellation of a CONFIRMED booking, so the seats of the flight of b are given
   back at most once per booking. *)
C16_NoRepeatedCancel ==
    [][ \A booking_id \in BookingIdArgs, email \in CancelEmailArgs :
            /\ ( /\ booking_id \in DOMAIN BOOKINGS
                 /\ BOOKINGS[booking_id].status = "CANCELLED"
                 /\ BOOKINGS[booking_id].passenger_email = email
                 /\ cancel_booking(booking_id, email) )
               => /\ result' = Error("AlreadyCancelled")
                  /\ FLIGHTS_DB' = FLIGHTS_DB
                  /\ BOOKINGS' = BOOKINGS
                  /\ BOOKING_COUNTER' = BOOKING_COUNTER
            /\ ( /\ result'.kind = "Cancelled"
                 /\ cancel_booking(booking_id, email) )
               => BOOKINGS[booking_id].status = "CONFIRMED"
      ]_vars

\* BK1000 on JL005 is cancelled, BK1001 is not, and a second cancellation of BK1000
\* by its owner has just been turned away: JL005 has its seeded seats less those of
\* the confirmed bookings, the 2 seats of BK1000 were given back once
C16_Witness ==
    /\ result = Error("AlreadyCancelled")
    /\ DOMAIN BOOKINGS = {"BK1000", "BK1001"}
    /\ BOOKINGS["BK1000"].status = "CANCELLED"
    /\ BOOKINGS["BK1000"].flight_id = "JL005"
    /\ BOOKINGS["BK1000"].passengers = 2
    /\ BOOKINGS["BK1001"].status = "CONFIRMED"
    /\ SeatsNow("JL005") = InitialSeats("JL005") - ConfirmedSum("JL005")

(* C17: ownership check. cancel_booking on an existing booking succeeds only if the
   e-mail supplied equals the stored passenger_email character for character (a
   difference in letter case is a mismatch); any other e-mail returns EmailMismatch
   and leaves the seats, the status of the booking and the ledger unchanged. *)
C17_OwnershipCheck ==
    [][ \A booking_id \in BookingIdArgs, email \in CancelEmailArgs :
            ( /\ booking_id \in DOMAIN BOOKINGS
              /\ cancel_booking(booking_id, email) )
            => LET stored == BOOKINGS[booking_id].passenger_email
                   same == /\ Len(email) = Len(stored)
                           /\ \A i \in 1..Len(stored) : email[i] = stored[i]
               IN  /\ result'.kind = "Cancelled" => same
                   /\ ~same => /\ result' = Error("EmailMismatch")
                               /\ FLIGHTS_DB' = FLIGHTS_DB
                               /\ BOOKINGS' = BOOKINGS
      ]_vars

\* BK1000, booked on JL005 for 2 under j@e.c, was asked to be cancelled under J@e.c:
\* the call was turned away, the booking is CONFIRMED and JL005 still has 21 seats
C17_Witness ==
    /\ result = Error("EmailMismatch")
    /\ DOMAIN BOOKINGS = {"BK1000"}
    /\ BOOKINGS["BK1000"].passenger_email = EmailLower
    /\ BOOKINGS["BK1000"].flight_id = "JL005"
    /\ BOOKINGS["BK1000"].passengers = 2
    /\ BOOKINGS["BK1000"].status = "CONFIRMED"
    /\ SeatsNow("JL005") = 21

(* C18, as the specification writes it: book_flight on an existing flight with
   passengers greater than the current seats of the flight returns InsufficientSeats
   carrying requested = passengers and available = the current seats, and leaves the
   seats, the ledger and the id counter unchanged, whatever the other arguments. *)
C18_InsufficientSeatsAsWritten ==
    [][ \A flight_id \in FlightIds \cap FlightIdArgs :
          LET seats == SeatsIn(FLIGHTS_DB, flight_id)
          IN  \A call \in BookCalls :
                  ( /\ call[1] = flight_id
                    /\ call[2] > seats
                    /\ book_flight(call[1], call[2], call[3], call[4], call[5]) )
                  => /\ result' = [kind |-> "InsufficientSeats",
                                   requested |-> call[2],
                                   available |-> seats]
                     /\ FLIGHTS_DB' = FLIGHTS_DB
                     /\ BOOKINGS' = BOOKINGS
                     /\ BOOKING_COUNTER' = BOOKING_COUNTER
      ]_vars

\* for each flight of the inventory that callers name: the book_flight calls on it
\* whose e-mail contains "@" and "."
WellFormedCallsOn ==
    [f \in FlightIds \cap FlightIdArgs |->
        { call \in BookCalls :
              /\ call[1] = f
              /\ \E i \in 1..Len(call[5]) : call[5][i] = "@"
              /\ \E i \in 1..Len(call[5]) : call[5][i] = "." }]

(* C18: book_flight with an e-mail that contains "@" and "." on an existing flight
   with passengers greater than the current seats of the flight returns
   InsufficientSeats carrying requested = passengers and available = the current
   seats, books nothing, and leaves the seats, the ledger and the id counter
   unchanged; 50 on the seeded JL005 reports requested 50, available 23. *)
C18_InsufficientSeats ==
    [][ \A flight_id \in DOMAIN WellFormedCallsOn :
          LET seats == SeatsIn(FLIGHTS_DB, flight_id)
          IN  \A call \in WellFormedCallsOn[flight_id] :
                  ( /\ call[2] > seats
                    /\ book_flight(call[1], call[2], call[3], call[4], call[5]) )
                  => /\ result' = [kind |-> "InsufficientSeats",
                                   requested |-> call[2],
                                   available |-> seats]
                     /\ FLIGHTS_DB' = FLIGHTS_DB
                     /\ BOOKINGS' = BOOKINGS
                     /\ BOOKING_COUNTER' = BOOKING_COUNTER
                     /\ (FLIGHTS_DB = SeedFlights /\ flight_id = "JL005" /\ call[2] = 50)
                        => (result'.requested = 50 /\ result'.available = 23)
      ]_vars

\* 50 seats were asked for on the seeded JL005: the answer names 50 and 23, and the
\* inventory, the ledger and the counter are those of the seed
C18_Witness ==
    /\ result = [kind |-> "InsufficientSeats", requested |-> 50, available |-> 23]
    /\ FLIGHTS_DB = SeedFlights
    /\ BOOKINGS = << >>
    /\ BOOKING_COUNTER = InitialCounter

(* C19: book_flight rejects with InvalidEmail every e-mail that lacks "@" or lacks
   ".", whatever the flight id (an unknown flight id with such an e-mail gives
   InvalidEmail, not FlightNotFound), and without any change of state; so every
   booking in the ledger has a passenger_email that contains both "@" and ".". *)
C19_InvalidEmailFirst ==
    [][ /\ \A call \in BookCalls :
              ( /\ \/ \A i \in 1..Len(call[5]) : call[5][i] # "@"
                   \/ \A i \in 1..Len(call[5]) : call[5][i] # "."
                /\ book_flight(call[1], call[2], call[3], call[4], call[5]) )
              => /\ result' = Error("InvalidEmail")
                 /\ FLIGHTS_DB' = FLIGHTS_DB
                 /\ BOOKINGS' = BOOKINGS
                 /\ BOOKING_COUNTER' = BOOKING_COUNTER
        /\ \A id \in DOMAIN BOOKINGS' :
              /\ \E i \in 1..Len(BOOKINGS'[id].passenger_email) : BOOKINGS'[id].passenger_email[i] = "@"
              /\ \E i \in 1..Len(BOOKINGS'[id].passenger_email) : BOOKINGS'[id].passenger_email[i] = "."
      ]_vars

\* a call with a malformed e-mail has just been turned away while a booking made under
\* a well-formed one is in the ledger; no second booking was made and no id was used
C19_Witness ==
    /\ result = Error("InvalidEmail")
    /\ DOMAIN BOOKINGS = {"BK1000"}
    /\ BOOKINGS["BK1000"].passenger_email = EmailLower
    /\ BOOKING_COUNTER = InitialCounter + 1

(* C20: check_flight_availability(flight_id, passengers) is read-only and returns
   InvalidPassengerCount if passengers is outside [1, 9], whatever the flight id;
   else FlightNotFound if no flight has that id; else a report with can_book = (seats
   >= passengers), seats_available = the current seats, and total_price = price *
   passengers (no cabin multiplier) when can_book is true and no price when it is
   false.  JL005 for 2 on the seed gives can_book true and total_price 2400.  (The
   quote is in the unit of the inventory's price; <<x>> is a price, << >> is None.) *)
C20_AvailabilityReport ==
    [][ \A flight_id \in FlightIdArgs, passengers \in CheckPassengerArgs :
            check_flight_availability(flight_id, passengers) =>
                /\ FLIGHTS_DB' = FLIGHTS_DB
                /\ BOOKINGS' = BOOKINGS
                /\ BOOKING_COUNTER' = BOOKING_COUNTER
                /\ IF passengers < 1 \/ passengers > 9
                   THEN result' = Error("InvalidPassengerCount")
                   ELSE IF flight_id \notin FlightIds
                   THEN result' = Error("FlightNotFound")
                   ELSE LET seats == SeatsIn(FLIGHTS_DB, flight_id)
                            price == PriceIn(FLIGHTS_DB, flight_id)
                        IN  /\ result'.kind = "Availability"
                            /\ result'.can_book = (seats >= passengers)
                            /\ result'.seats_available = seats
                            /\ result'.total_price =
                                  IF seats >= passengers THEN <<price * passengers>> ELSE << >>
                /\ (FLIGHTS_DB = SeedFlights /\ flight_id = "JL005" /\ passengers = 2)
                   => (result'.can_book /\ result'.total_price = <<2400>>)
      ]_vars

\* JL005 was asked about for 2 on the seeded inventory
C20_Witness ==
    /\ result.kind = "Availability"
    /\ result.flight_id = "JL005"
    /\ result.passengers_requested = 2
    /\ result.can_book
    /\ result.seats_available = 23
    /\ result.total_price = <<2400>>
    /\ FLIGHTS_DB = SeedFlights
    /\ BOOKINGS = << >>

(* C21: search_flights(origin, destination, date) is read-only and returns
   InvalidRoute when origin = destination; else RouteNotFound when the inventory has
   no key origin-destination or no flight under it; else all the flights of that
   route in their stored order and with their current seats, with count equal to the
   length of the list and the date handed back as it came. *)
C21_SearchReport ==
    [][ \A origin \in CityCodes, destination \in CityCodes, date \in Dates :
            search_flights(origin, destination, date) =>
                /\ FLIGHTS_DB' = FLIGHTS_DB
                /\ BOOKINGS' = BOOKINGS
                /\ BOOKING_COUNTER' = BOOKING_COUNTER
                /\ LET key == origin \o "-" \o destination
                   IN  IF origin = destination
                       THEN result' = Error("InvalidRoute")
                       ELSE IF key \notin DOMAIN FLIGHTS_DB \/ Len(FLIGHTS_DB[key]) = 0
                       THEN result' = Error("RouteNotFound")
                       ELSE /\ result'.kind = "Flights"
                            /\ Len(result'.flights) = Len(FLIGHTS_DB[key])
                            /\ \A i \in 1..Len(FLIGHTS_DB[key]) :
                                  result'.flights[i] = FLIGHTS_DB[key][i]
                            /\ result'.count = Len(result'.flights)
                            /\ result'.date = date
      ]_vars

\* NYC to TYO was searched after JL005 was booked for 2: both flights of the route
\* come back, JL005 first and with the 21 seats it has left
C21_Witness ==
    /\ result.kind = "Flights"
    /\ result.origin = "NYC" /\ result.destination = "TYO"
    /\ result.count = 2
    /\ result.flights[1].id = "JL005" /\ result.flights[1].seats = 21
    /\ result.flights[2].id = "AA150"
    /\ result.date = "2025-02-15"
    /\ SeatsNow("JL005") = 21

(* C22: view_booking(id) changes no state; it returns BookingNotFound exactly when id
   is not a key of the ledger, and otherwise the stored record as it is now: after a
   successful cancellation it shows the status CANCELLED and the total_price the
   booking was sold at. *)
C22_ViewVerbatim ==
    [][ \A booking_id \in BookingIdArgs :
            view_booking(booking_id) =>
                /\ FLIGHTS_DB' = FLIGHTS_DB
                /\ BOOKINGS' = BOOKINGS
                /\ BOOKING_COUNTER' = BOOKING_COUNTER
                /\ (result' = Error("BookingNotFound")) <=> (booking_id \notin DOMAIN BOOKINGS)
                /\ booking_id \in DOMAIN BOOKINGS =>
                      /\ result'.kind = "Booking"
                      /\ DOMAIN result'.booking = DOMAIN BOOKINGS[booking_id]
                      /\ \A field \in DOMAIN BOOKINGS[booking_id] :
                            result'.booking[field] = BOOKINGS[booking_id][field]
      ]_vars

\* BK1000, sold for 6000.00 and since cancelled, has just been looked at
C22_Witness ==
    /\ result.kind = "Booking"
    /\ result.booking.booking_id = "BK1000"
    /\ result.booking.status = "CANCELLED"
    /\ result.booking.total_price = 600000
    /\ BOOKINGS["BK1000"].status = "CANCELLED"
    /\ BOOKINGS["BK1000"].total_price = 600000

(* C23: the flight set is fixed. Over any sequence of calls of the tools the set of
   routes, the flights of each route and their order, and the id, price, departure
   and arrival of each flight never change; flight ids stay unique across the whole
   inventory; and a successful book_flight changes the seats of its flight only. *)
C23_FlightSetFixed ==
    [][ /\ \/ FLIGHTS_DB' = FLIGHTS_DB
           \/ /\ DOMAIN FLIGHTS_DB' = DOMAIN FLIGHTS_DB
              /\ \A r \in DOMAIN FLIGHTS_DB :
                    /\ Len(FLIGHTS_DB'[r]) = Len(FLIGHTS_DB[r])
                    /\ \A i \in 1..Len(FLIGHTS_DB[r]) :
                          /\ FLIGHTS_DB'[r][i].id = FLIGHTS_DB[r][i].id
                          /\ FLIGHTS_DB'[r][i].price = FLIGHTS_DB[r][i].price
                          /\ FLIGHTS_DB'[r][i].departure = FLIGHTS_DB[r][i].departure
                          /\ FLIGHTS_DB'[r][i].arrival = FLIGHTS_DB[r][i].arrival
              /\ \A r1 \in DOMAIN FLIGHTS_DB', r2 \in DOMAIN FLIGHTS_DB' :
                    \A i \in 1..Len(FLIGHTS_DB'[r1]), j \in 1..Len(FLIGHTS_DB'[r2]) :
                        FLIGHTS_DB'[r1][i].id = FLIGHTS_DB'[r2][j].id => (r1 = r2 /\ i = j)
        /\ FLIGHTS_DB = SeedFlights =>
              \A r1 \in DOMAIN FLIGHTS_DB, r2 \in DOMAIN FLIGHTS_DB :
                  \A i \in 1..Len(FLIGHTS_DB[r1]), j \in 1..Len(FLIGHTS_DB[r2]) :
                      FLIGHTS_DB[r1][i].id = FLIGHTS_DB[r2][j].id => (r1 = r2 /\ i = j)
        /\ result'.kind = "Booked" =>
              \A r \in DOMAIN FLIGHTS_DB :
                  \A i \in 1..Len(FLIGHTS_DB[r]) :
                      FLIGHTS_DB[r][i].id # result'.booking.flight_id
                          => FLIGHTS_DB'[r][i].seats = FLIGHTS_DB[r][i].seats
      ]_vars

\* JL005 has been booked, AA150 has been booked and cancelled: the seats of JL005
\* moved, the inventory still has its four routes of two flights
C23_Witness ==
    /\ SeatsNow("JL005") = 21
    /\ SeatsNow("AA150") = InitialSeats("AA150")
    /\ \E id \in DOMAIN BOOKINGS :
          BOOKINGS[id].flight_id = "AA150" /\ BOOKINGS[id].status = "CANCELLED"
    /\ DOMAIN FLIGHTS_DB = {"NYC-LON", "NYC-TYO", "LAX-TYO", "LON-PAR"}
    /\ \A r \in DOMAIN FLIGHTS_DB : Len(FLIGHTS_DB[r]) = 2

-----------------------------------------------------------------------------
(* The mock module (src/flight_booking_system_mock.py) beside the real engine.
   The mock has its own FLIGHTS_DB, BOOKINGS and BOOKING_COUNTER and its own
   search_flights, check_flight_availability and book_flight; each is written
   here as the module state after the call, from the module state before it.
   In SpecMock every call is made on both engines with the same arguments. *)

\* the places of "for route, flights in FLIGHTS_DB.items(): for flight in flights" in the mock
MockSlots(db) ==
    UNION { { <<k, i>> : i \in 1..Len(db[MockScanOrder[k]]) } : k \in 1..Len(MockScanOrder) }

MockFlightAt(db, s) == db[MockScanOrder[s[1]]][s[2]]

MockMatchingSlots(db, flight_id) == { s \in MockSlots(db) : MockFlightAt(db, s).id = flight_id }

MockFirstMatch(db, flight_id) ==
    LET found == MockMatchingSlots(db, flight_id)
    IN  CHOOSE s \in found : \A o \in found : o = s \/ Before(s, o)

\* {"economy": 1.0, "business": 2.5, "first": 4.0} of the mock, in tenths
MockMultiplierTable == [economy |-> 10, business |-> 25, first |-> 40]

\* the mock's search_flights: no test of origin against destination
mock_search_flights(m, origin, destination, departure_date) ==
    LET flights == RouteFlights(m.FLIGHTS_DB, RouteKey(origin, destination))
    IN  [m EXCEPT !.result =
            IF flights = << >> THEN Error("RouteNotFound")
            ELSE [kind |-> "Flights",
                  origin |-> origin,
                  destination |-> destination,
                  date |-> departure_date,
                  flights |-> flights,
                  count |-> Len(flights)]]

\* the mock's check_flight_availability: no test of the passenger count
mock_check_flight_availability(m, flight_id, passengers) ==
    [m EXCEPT !.result =
        IF MockMatchingSlots(m.FLIGHTS_DB, flight_id) = {} THEN Error("FlightNotFound")
        ELSE LET s == MockFirstMatch(m.FLIGHTS_DB, flight_id)
                 flight == MockFlightAt(m.FLIGHTS_DB, s)
                 available == flight.seats
                 can_book == available >= passengers
             IN  [kind |-> "Availability",
                  flight_id |-> flight_id,
                  route |-> MockScanOrder[s[1]],
                  passengers_requested |-> passengers,
                  seats_available |-> available,
                  can_book |-> can_book,
                  price_per_person |-> flight.price,
                  total_price |-> IF can_book THEN <<flight.price * passengers>> ELSE << >>]]

\* the mock's book_flight: no test of the e-mail; the booking keeps seven fields
mock_book_flight(m, flight_id, passengers, cabin_class, passenger_name, passenger_email) ==
    IF MockMatchingSlots(m.FLIGHTS_DB, flight_id) = {}
    THEN [m EXCEPT !.result = Error("FlightNotFound")]
    ELSE LET s == MockFirstMatch(m.FLIGHTS_DB, flight_id)
             flight == MockFlightAt(m.FLIGHTS_DB, s)
         IN  IF flight.seats < passengers
             THEN [m EXCEPT !.result = Error("InsufficientSeats")]
             ELSE IF cabin_class \notin DOMAIN MockMultiplierTable
             THEN [m EXCEPT !.result = [kind |-> "KeyError"]]
             ELSE LET booking_id == FormatId(m.BOOKING_COUNTER)
                      booking ==
                          [booking_id |-> booking_id,
                           flight_id |-> flight_id,
                           passengers |-> passengers,
                           cabin_class |-> cabin_class,
                           passenger_name |-> passenger_name,
                           total_price |->
                               Round2(flight.price * passengers
                                        * MockMultiplierTable[cabin_class] * 100),
                           status |-> "CONFIRMED"]
                  IN  [FLIGHTS_DB |->
                           [m.FLIGHTS_DB EXCEPT
                               ![MockScanOrder[s[1]]][s[2]].seats = @ - passengers],
                       BOOKINGS |-> (booking_id :> booking) @@ m.BOOKINGS,
                       BOOKING_COUNTER |-> m.BOOKING_COUNTER + 1,
                       result |-> [kind |-> "Booked", booking |-> booking]]

\* the routes both databases contain, as origin and destination
CommonRoutes ==
    { od \in {"NYC", "LAX"} \X {"LON", "TYO"} :
          RouteKey(od[1], od[2]) \in (DOMAIN SeedFlights) \cap (DOMAIN MockSeedFlights) }

BothSearch ==
    /\ \E od \in CommonRoutes, date \in Dates :
          /\ search_flights(od[1], od[2], date)
          /\ mock' = mock_search_flights(mock, od[1], od[2], date)
    /\ UNCHANGED assistant

BothCheck ==
    /\ \E f \in FlightIdArgs, p \in CheckPassengerArgs :
          /\ check_flight_availability(f, p)
          /\ mock' = mock_check_flight_availability(mock, f, p)
    /\ UNCHANGED assistant

\* a call that would hand out more than MaxBookings ids on either engine is not made
BothBook ==
    /\ \E call \in BookCalls :
          /\ book_flight(call[1], call[2], call[3], call[4], call[5])
          /\ mock' = mock_book_flight(mock, call[1], call[2], call[3], call[4], call[5])
          /\ BOOKING_COUNTER' <= InitialCounter + MaxBookings
          /\ mock'.BOOKING_COUNTER <= MockInitialCounter + MaxBookings
    /\ UNCHANGED assistant

NextMock == BothSearch \/ BothCheck \/ BothBook

SpecMock == Init /\ [][NextMock]_vars

\* what the two engines are compared on: the flights of the routes both contain,
\* and of a booking its id, passengers, total_price and status
CommonFlightIds ==
    { MockFlightAt(MockSeedFlights, s).id : s \in MockSlots(MockSeedFlights) }
       \cap { FlightAt(SeedFlights, s).id : s \in Slots(SeedFlights) }

LedgerView(ledger) ==
    [id \in DOMAIN ledger |->
        [booking_id |-> ledger[id].booking_id, passengers |-> ledger[id].passengers,
         total_price |-> ledger[id].total_price, status |-> ledger[id].status]]

(* C24: the mock's tools behave as the real ones. After every sequence of the same
   search_flights, check_flight_availability and book_flight calls made on both
   engines, the last call returned the same outcome on both (success of the same
   kind, or the same error), every flight of a route both databases contain has the
   same seats on both, and the two ledgers hold the same booking ids with the same
   passengers, total_price and status. *)
C24_MockSameAsReal ==
    /\ mock.result.kind = result.kind
    /\ \A f \in CommonFlightIds :
          MockFlightAt(mock.FLIGHTS_DB, MockFirstMatch(mock.FLIGHTS_DB, f)).seats
             = FlightAt(FLIGHTS_DB, FirstMatch(FLIGHTS_DB, f)).seats
    /\ LedgerView(mock.BOOKINGS) = LedgerView(BOOKINGS)

-----------------------------------------------------------------------------
(* run_booking_assistant: the loop around the external model.  What the model
   answers is not the program's choice: each invocation may come back with a
   tool-free response or with tool calls, in any order over the turns.  The tool
   calls of a response are executed one after another on the engine.  The model is
   bound to the tools' schemas (bind_tools, strict), so a tool call names one of
   the five tools with arguments of its signature; the arguments are drawn when
   the call is executed. *)

max_iterations == 10

ToolNames ==
    {"search_flights", "check_flight_availability", "book_flight", "cancel_booking",
     "view_booking"}

\* response.tool_calls of a response that asks for tools: one call, or two
ToolCallLists ==
    { <<n>> : n \in ToolNames }
       \cup { <<"search_flights", "check_flight_availability">>, <<"book_flight", "view_booking">> }

AssistantFlightArgs == {"JL005"}
AssistantBookingArgs == {FormatId(InitialCounter)}

\* the test is made after the increment: an eleventh turn is let in
LoopContinues_OneMore(iteration) == iteration <= max_iterations

\* while iteration < max_iterations
LoopContinues(iteration) == iteration < max_iterations

\* the call run_booking_assistant(user_message, ...), up to the first test of the loop
user_message ==
    /\ assistant.at \in {"idle", "returned"}
    /\ assistant' = [NotRunning EXCEPT !.at = "loop"]
    /\ UNCHANGED <<FLIGHTS_DB, BOOKINGS, BOOKING_COUNTER, clock, result, issued, pc, loc, mock>>

\* iteration += 1; response = model_with_tools.invoke(...); the response asks for no
\* tool: return response.content
final_response ==
    /\ assistant.at = "loop"
    /\ LoopContinues(assistant.iteration)
    /\ assistant' = [assistant EXCEPT !.iteration = @ + 1, !.invocations = @ + 1,
                                      !.at = "returned", !.reply = "final"]
    /\ UNCHANGED <<FLIGHTS_DB, BOOKINGS, BOOKING_COUNTER, clock, result, issued, pc, loc, mock>>

\* iteration += 1; response = model_with_tools.invoke(...); the response asks for tools
\* (a book_flight call is asked for only while the model's bound on bookings lets it run)
tools_response ==
    /\ assistant.at = "loop"
    /\ LoopContinues(assistant.iteration)
    /\ \E calls \in ToolCallLists :
          /\ (\E i \in 1..Len(calls) : calls[i] = "book_flight")
                => BOOKING_COUNTER < InitialCounter + MaxBookings
          /\ assistant' = [assistant EXCEPT !.iteration = @ + 1, !.invocations = @ + 1,
                                            !.tool_turns = @ + 1,
                                            !.at = "tools", !.pending = calls]
    /\ UNCHANGED <<FLIGHTS_DB, BOOKINGS, BOOKING_COUNTER, clock, result, issued, pc, loc, mock>>

\* tool_function = {...}[tool_name]; result = tool_function(**tool_args), for the next
\* tool call of the response; after the last one, continue
tool_call ==
    /\ assistant.at = "tools"
    /\ LET tool_name == Head(assistant.pending)
       IN  \/ /\ tool_name = "search_flights"
              /\ \E date \in Dates : search_flights("NYC", "TYO", date)
           \/ /\ tool_name = "check_flight_availability"
              /\ \E f \in AssistantFlightArgs : check_flight_availability(f, 2)
           \/ /\ tool_name = "book_flight"
              /\ \E f \in AssistantFlightArgs, n \in NameArgs :
                    book_flight(f, 2, "business", n, EmailLower)
           \/ /\ tool_name = "cancel_booking"
              /\ \E b \in AssistantBookingArgs : cancel_booking(b, EmailLower)
           \/ /\ tool_name = "view_booking"
              /\ \E b \in AssistantBookingArgs : view_booking(b)
    /\ assistant' = [assistant EXCEPT !.pending = Tail(@),
                                      !.at = IF Tail(assistant.pending) = << >>
                                             THEN "loop" ELSE "tools"]
    /\ UNCHANGED mock

\* the loop test fails: the apology is returned
max_iterations_reached ==
    /\ assistant.at = "loop"
    /\ ~LoopContinues(assistant.iteration)
    /\ assistant' = [assistant EXCEPT !.at = "returned", !.reply = "apology"]
    /\ UNCHANGED <<FLIGHTS_DB, BOOKINGS, BOOKING_COUNTER, clock, result, issued, pc, loc, mock>>

\* the steps of a running call
Turn == final_response \/ tools_response \/ tool_call \/ max_iterations_reached

NextAssistant ==
    user_message \/ final_response \/ tools_response \/ tool_call \/ max_iterations_reached

\* a call that was started keeps running: the interpreter takes its next step, the
\* model answers every invocation, a tool call comes back
SpecAssistant == Init /\ [][NextAssistant]_vars /\ WF_vars(Turn)

(* C25: the orchestration loop is bounded. Whatever the external model answers, a
   call of run_booking_assistant invokes it at most max_iterations (10) times; a
   call that returned did so either at the model's first tool-free response (every
   earlier response asked for tools) or, after ten responses that all asked for
   tools, with the fixed apology; and every call that was started returns. *)
C25_LoopBounded ==
    /\ [](assistant.invocations <= max_iterations)
    /\ [](assistant.at = "returned" => assistant.reply \in {"final", "apology"})
    /\ []((assistant.at = "returned" /\ assistant.reply = "final")
             => assistant.invocations = assistant.tool_turns + 1)
    /\ []((assistant.at = "returned" /\ assistant.reply = "apology")
             => /\ assistant.invocations = max_iterations
                /\ assistant.tool_turns = max_iterations)
    /\ (assistant.at \in {"loop", "tools"} ~> assistant.at = "returned")

\* the model asked for tools ten times, a booking was made on the way, and the call
\* returned the apology
C25_Witness ==
    /\ assistant.at = "returned"
    /\ assistant.reply = "apology"
    /\ assistant.invocations = max_iterations
    /\ BOOKINGS # << >>

(* C26: the order of the checks of cancel_booking. An unknown booking id returns
   BookingNotFound whatever the e-mail; an existing booking with another e-mail
   returns EmailMismatch whether it is CONFIRMED or already CANCELLED; only with the
   matching e-mail does a CANCELLED booking return AlreadyCancelled. *)
C26_CancelCheckOrder ==
    [][ \A booking_id \in BookingIdArgs, email \in CancelEmailArgs :
            cancel_booking(booking_id, email)
            => IF booking_id \notin DOMAIN BOOKINGS
               THEN result' = Error("BookingNotFound")
               ELSE IF BOOKINGS[booking_id].passenger_email # email
               THEN result' = Error("EmailMismatch")
               ELSE IF BOOKINGS[booking_id].status = "CANCELLED"
               THEN result' = Error("AlreadyCancelled")
               ELSE result'.kind = "Cancelled"
      ]_vars

\* BK1000, booked under j@e.c and since cancelled, is the only booking, and the last
\* call, a cancellation of it under another e-mail, returned EmailMismatch
C26_Witness ==
    /\ result = Error("EmailMismatch")
    /\ DOMAIN BOOKINGS = {"BK1000"}
    /\ BOOKINGS["BK1000"].passenger_email = EmailLower
    /\ BOOKINGS["BK1000"].status = "CANCELLED"

-----------------------------------------------------------------------------
(* cancel_booking run by several threads at once, on bookings made before the
   threads start.  The function takes no lock: a thread may be preempted between
   any two accesses of the shared state.  booking is a reference to the dict in
   BOOKINGS, so every later read of it sees what another thread wrote meanwhile;
   flight["seats"] += booking["passengers"] is a read followed by a write. *)

ConcCancelBookCalls == { <<"JL005", 2, "business", n, EmailLower>> : n \in NameArgs }
ConcCancelIdArgs == {FormatId(InitialCounter)}

\* a booking is made while no cancel_booking call is running
BookBeforeCancels ==
    /\ \A t \in Threads : pc[t] = "idle"
    /\ \E call \in ConcCancelBookCalls :
          /\ book_flight(call[1], call[2], call[3], call[4], call[5])
          /\ BOOKING_COUNTER' <= InitialCounter + MaxBookings
    /\ EngineOnly

\* the call is made: the arguments are bound
c_call(t) ==
    /\ pc[t] = "idle"
    /\ \E b \in ConcCancelIdArgs, e \in CancelEmailArgs :
          Goto(t, "lookup", [op |-> "cancel_booking", booking_id |-> b, passenger_email |-> e])
    /\ UNCHANGED <<FLIGHTS_DB, BOOKINGS, BOOKING_COUNTER, clock, result, issued>>

\* if booking_id not in BOOKINGS; booking = BOOKINGS[booking_id]
c_lookup(t) ==
    /\ pc[t] = "lookup"
    /\ IF loc[t].booking_id \notin DOMAIN BOOKINGS
       THEN Return(t, Error("BookingNotFound"))
       ELSE Goto(t, "verify_email", loc[t])
    /\ UNCHANGED <<FLIGHTS_DB, BOOKINGS, BOOKING_COUNTER, clock, result, issued>>

\* if booking["passenger_email"] != passenger_email
c_verify_email(t) ==
    /\ pc[t] = "verify_email"
    /\ IF EmailMismatch(BOOKINGS[loc[t].booking_id].passenger_email, loc[t].passenger_email)
       THEN Return(t, Error("EmailMismatch"))
       ELSE Goto(t, "status", loc[t])
    /\ UNCHANGED <<FLIGHTS_DB, BOOKINGS, BOOKING_COUNTER, clock, result, issued>>

\* if booking["status"] == "CANCELLED"; then flight_id = booking["flight_id"] and the
\* scan for the flight
c_status(t) ==
    /\ pc[t] = "status"
    /\ LET booking == BOOKINGS[loc[t].booking_id]
       IN  IF AlreadyCancelled(booking)
           THEN Return(t, Error("AlreadyCancelled"))
           ELSE IF MatchingSlots(FLIGHTS_DB, booking.flight_id) = {}
           THEN Goto(t, "status_store", loc[t])
           ELSE Goto(t, "restore_load",
                     ("slot" :> FirstMatch(FLIGHTS_DB, booking.flight_id)) @@ loc[t])
    /\ UNCHANGED <<FLIGHTS_DB, BOOKINGS, BOOKING_COUNTER, clock, result, issued>>

\* flight["seats"] += booking["passengers"], the read
c_restore_load(t) ==
    /\ pc[t] = "restore_load"
    /\ Goto(t, "restore_store", ("tmp" :> FlightAt(FLIGHTS_DB, loc[t].slot).seats) @@ loc[t])
    /\ UNCHANGED <<FLIGHTS_DB, BOOKINGS, BOOKING_COUNTER, clock, result, issued>>

\* flight["seats"] += booking["passengers"], the write
c_restore_store(t) ==
    /\ pc[t] = "restore_store"
    /\ FLIGHTS_DB' = WithSeats(FLIGHTS_DB, loc[t].slot,
                               SeatsAfterCancel(loc[t].tmp,
                                                BOOKINGS[loc[t].booking_id].passengers))
    /\ Goto(t, "status_store", loc[t])
    /\ UNCHANGED <<BOOKINGS, BOOKING_COUNTER, clock, result, issued>>

\* booking["status"] = "CANCELLED"; booking["cancellation_date"] = now; the
\* confirmation is returned
c_status_store(t) ==
    /\ pc[t] = "status_store"
    /\ LET booking == BOOKINGS[loc[t].booking_id]
       IN  /\ BOOKINGS' = [BOOKINGS EXCEPT ![loc[t].booking_id] = CancelledBooking(booking, clock)]
           /\ Return(t, [kind |-> "Cancelled",
                         booking_id |-> loc[t].booking_id,
                         refund_amount |-> RefundAmount(booking.total_price),
                         original_amount |-> booking.total_price,
                         cancellation_fee |-> CancellationFee(booking.total_price)])
    /\ clock' = clock + 1
    /\ UNCHANGED <<FLIGHTS_DB, BOOKING_COUNTER, result, issued>>

NextCancelConc ==
    \/ BookBeforeCancels
    \/ \E t \in Threads :
          \/ c_call(t)
          \/ c_lookup(t)
          \/ c_verify_email(t)
          \/ c_status(t)
          \/ c_restore_load(t)
          \/ c_restore_store(t)
          \/ c_status_store(t)

SpecCancelConc == Init /\ [][NextCancelConc]_vars

\* the cancel_booking calls of the threads that came back with a confirmation for this booking
CancelledBy(booking_id) ==
    { t \in Threads :
          /\ pc[t] = "done"
          /\ loc[t].booking_id = booking_id
          /\ loc[t].ret.kind = "Cancelled" }

(* C27: concurrent cancellations of one booking. Of the cancel_booking calls that run
   side by side for the same CONFIRMED booking with the matching e-mail at most one
   comes back with a confirmation, and the passengers are given back to the flight
   once: no flight ever has more seats than it was seeded with. *)
C27_CancelAtomic ==
    /\ \A b \in ConcCancelIdArgs : Cardinality(CancelledBy(b)) <= 1
    /\ \A f \in FlightIds : SeatsNow(f) <= InitialSeats(f)

(* C28: seats and confirmed passengers. After any sequence of book_flight and
   cancel_booking calls made one after another, every flight's seats plus the
   passengers of its CONFIRMED bookings make up the seats it was seeded with; a
   CANCELLED booking counts for nothing in the sum. *)
C28_SeatsPlusConfirmed ==
    \A f \in FlightIds :
        SeatsNow(f) + PassengerSum({ id \in BookingsOn(f) : BOOKINGS[id].status = "CONFIRMED" })
           = InitialSeats(f)

\* JL005 (23 seats) carries a cancelled booking of two and a confirmed booking of nine
C28_Witness ==
    /\ CancelledSum("JL005") = 2
    /\ ConfirmedSum("JL005") = 9
    /\ SeatsNow("JL005") = 14

-----------------------------------------------------------------------------
(* The summary printed over the ledger: total, active and cancelled bookings *)

TotalBookings == Cardinality(DOMAIN BOOKINGS)
ActiveBookings == Cardinality({ id \in DOMAIN BOOKINGS : BOOKINGS[id].status = "CONFIRMED" })
CancelledBookings == Cardinality({ id \in DOMAIN BOOKINGS : BOOKINGS[id].status = "CANCELLED" })

(* C29: the ledger and the counter. After any sequence of calls made one after
   another the keys of the ledger are exactly BK1000 ... BK(BOOKING_COUNTER - 1), every
   entry carries its key as booking_id, and the summary counts agree: total bookings
   = BOOKING_COUNTER - 1000 = active (CONFIRMED) + cancelled (CANCELLED). *)
C29_LedgerSummary ==
    /\ DOMAIN BOOKINGS = { FormatId(n) : n \in InitialCounter..(BOOKING_COUNTER - 1) }
    /\ \A id \in DOMAIN BOOKINGS : BOOKINGS[id].booking_id = id
    /\ TotalBookings = BOOKING_COUNTER - InitialCounter
    /\ TotalBookings = ActiveBookings + CancelledBookings

\* two bookings were made, BK1000 and BK1001, and one of them has been cancelled
C29_Witness ==
    /\ BOOKING_COUNTER = InitialCounter + 2
    /\ ActiveBookings = 1
    /\ CancelledBookings = 1

=============================================================================
